---- MODULE Spec2Model ----
(***************************************************************************)
(* Model of lock_and_capture.py: a single-threaded program that probes for *)
(* a camera, captures one still image and locks the workstation.           *)
(*                                                                         *)
(* The program is sequential, so the model is one process whose position   *)
(* is pc.  Every call into cv2 / user32 / time is an environment step      *)
(* whose outcome is chosen nondeterministically among the outcomes the     *)
(* code distinguishes: a normal result, a "failed" result, or a raised     *)
(* exception.  time.sleep either returns or is ended by KeyboardInterrupt. *)
(* A handle counts as released only when cap.release() is called on it.    *)
(***************************************************************************)
EXTENDS Integers, Sequences, FiniteSets

\* range(5) in detect_camera
NumDevices == 5
\* range(3) in capture_image
NumReads == 3
\* return value of detect_camera when nothing was found
NoCamera == -1
\* MessageBoxW return value of the OK button
IDOK == 1

Devices == 0 .. (NumDevices - 1)

\* What a device does when detect_camera probes it (cv2.VideoCapture(i),
\* cap.isOpened(), cap.read()).
DevOutcomes == {"ok", "noopen", "noread", "openraise", "readraise"}

\* Values MessageBoxW can return for an OK/Cancel box: 0 (call failed),
\* 1 (OK), 2 (Cancel).
DialogReturns == {0, 1, 2}

VARIABLES
    pc,           \* position in the program
    started,      \* LockAndCaptureApp() was constructed and run() entered
    exitCode,     \* process exit status (-1 while running)
    dev,          \* outcome each device index gives to the probe
    i,            \* detect_camera: loop index
    dcap,         \* detect_camera: state of its local cap
    probed,       \* detect_camera: indices it tried to open
    detOpens,     \* detect_camera: handles it opened
    detReleases,  \* detect_camera: release() calls on opened handles
    nOpen,        \* camera handles currently open in the process
    camera_id,    \* run: result of detect_camera
    answered,     \* run: the confirmation dialog returned a value
    result,       \* run: that value
    cancelled,    \* run: returned at line 253
    cap,          \* capture_image: state of its local cap
    capOpened,    \* capture_image: cap.isOpened() was true
    capReleases,  \* capture_image: release() calls on cap
    reads,        \* capture_image: ret of each cap.read() so far
    frame,        \* capture_image: 0 is None, j is the frame of read j
    noFrame,      \* capture_image: returned at line 188 (frame is None)
    writeArg,     \* capture_image: frame handed to cv2.imwrite (0: not called)
    writeOk,      \* capture_image: cv2.imwrite returned True
    capState,     \* "idle", "running", "returned", "raised"
    image_path,   \* run: "unset", "None" or "path"
    captureCalls, \* number of capture_image calls
    lockCalls     \* number of lock_workstation calls

mainVars == <<started, exitCode>>
detVars  == <<dev, i, dcap, probed, detOpens, detReleases, camera_id>>
dlgVars  == <<answered, result, cancelled>>
capVars  == <<cap, capOpened, capReleases, reads, frame, noFrame, writeArg, writeOk,
              capState, image_path, captureCalls>>
vars == <<pc, mainVars, detVars, dlgVars, capVars, nOpen, lockCalls>>

Init ==
    /\ pc = "main"
    /\ started = FALSE
    /\ exitCode = -1
    /\ dev \in [Devices -> DevOutcomes]
    /\ i = 0
    /\ dcap = "None"
    /\ probed = {}
    /\ detOpens = 0
    /\ detReleases = 0
    /\ nOpen = 0
    /\ camera_id = NoCamera
    /\ answered = FALSE
    /\ result = 0
    /\ cancelled = FALSE
    /\ cap = "None"
    /\ capOpened = FALSE
    /\ capReleases = 0
    /\ reads = <<>>
    /\ frame = 0
    /\ noFrame = FALSE
    /\ writeArg = 0
    /\ writeOk = FALSE
    /\ capState = "idle"
    /\ image_path = "unset"
    /\ captureCalls = 0
    /\ lockCalls = 0

(***************************************************************************)
(* main() and the ways run() ends                                          *)
(***************************************************************************)

\* run() returned (normally, by the return at line 253, or after one of its
\* except clauses completed); main() falls off its end: exit status 0.
RunReturns ==
    /\ pc' = "exited"
    /\ exitCode' = 0
    /\ UNCHANGED started

\* An Exception raised inside run()'s try block: control goes to the
\* handler of line 283.
RunRaises ==
    /\ pc' = "run_except"
    /\ UNCHANGED mainVars

\* KeyboardInterrupt inside run()'s try block: logged (line 282), then the
\* finally clause, then run() returns normally.
RunInterrupted == RunReturns

\* app = LockAndCaptureApp(): _load_windows_api either succeeds or raises;
\* on a raise main() reports it and calls sys.exit(1).
Main_Create ==
    /\ pc = "main"
    /\ \E ok \in BOOLEAN :
         IF ok
           THEN /\ pc' = "run_notice"
                /\ started' = TRUE
                /\ UNCHANGED exitCode
           ELSE /\ pc' = "exited"
                /\ exitCode' = 1
                /\ UNCHANGED started
    /\ UNCHANGED <<detVars, dlgVars, capVars, nOpen, lockCalls>>

\* The initial notice (lines 234-238).
Run_Notice ==
    /\ pc = "run_notice"
    /\ \E raised \in BOOLEAN :
         IF raised
           THEN RunRaises
           ELSE /\ pc' = "det_open"
                /\ UNCHANGED mainVars
    /\ UNCHANGED <<detVars, dlgVars, capVars, nOpen, lockCalls>>

(***************************************************************************)
(* detect_camera (lines 125-151)                                           *)
(***************************************************************************)

\* detect_camera returns v to run(), which stores it in camera_id (line 241).
DetReturn(v) ==
    /\ camera_id' = v
    /\ pc' = "run_check"

\* End of one iteration of "for i in range(5)": the next index, or the
\* "return -1" of line 147 when the range is exhausted.
DetContinue ==
    /\ i' = i + 1
    /\ IF i + 1 < NumDevices
         THEN /\ pc' = "det_open"
              /\ UNCHANGED camera_id
         ELSE DetReturn(NoCamera)

\* cap.release() on the handle the probe opened (lines 141 and 144).
DetRelease ==
    /\ dcap' = "closed"
    /\ nOpen' = nOpen - 1
    /\ detReleases' = detReleases + 1

\* The handler of lines 149-151: log and return -1.  It releases nothing.
DetExcept ==
    /\ DetReturn(NoCamera)
    /\ UNCHANGED <<i, nOpen, detReleases>>

\* Lines 140-143: the frame was read; release and return i.
DetReadOk ==
    /\ DetRelease
    /\ DetReturn(i)
    /\ UNCHANGED i

\* Variant of DetReadFailed in which line 144 is missing: a handle whose read
\* failed is kept open while the loop goes on.
DetReadFailed_NoRelease ==
    /\ DetContinue
    /\ UNCHANGED <<dcap, nOpen, detReleases>>

\* Line 144: the read returned ret = False; release and go on.
DetReadFailed ==
    /\ DetRelease
    /\ DetContinue

\* Lines 136-137: cap = cv2.VideoCapture(i); if cap.isOpened(): ...
Det_Open ==
    /\ pc = "det_open"
    /\ probed' = probed \cup {i}
    /\ CASE dev[i] = "openraise" ->
              /\ DetExcept
              /\ UNCHANGED <<dcap, detOpens>>
         [] dev[i] = "noopen" ->
              /\ dcap' = "closed"
              /\ DetContinue
              /\ UNCHANGED <<nOpen, detOpens, detReleases>>
         [] OTHER ->
              /\ dcap' = "open"
              /\ nOpen' = nOpen + 1
              /\ detOpens' = detOpens + 1
              /\ pc' = "det_read"
              /\ UNCHANGED <<i, camera_id, detReleases>>
    /\ UNCHANGED <<dev, mainVars, dlgVars, capVars, lockCalls>>

\* Lines 139-144: ret, _ = cap.read() on the opened handle.
Det_Read ==
    /\ pc = "det_read"
    /\ CASE dev[i] = "ok" -> DetReadOk
         [] dev[i] = "noread" -> DetReadFailed
         [] OTHER ->
              /\ DetExcept
              /\ UNCHANGED dcap
    /\ UNCHANGED <<dev, probed, detOpens, mainVars, dlgVars, capVars, lockCalls>>

\* Lines 243 and 256: branch on camera_id.
Run_Check ==
    /\ pc = "run_check"
    /\ pc' = IF camera_id = NoCamera THEN "run_confirm" ELSE "cap_open"
    /\ UNCHANGED <<mainVars, detVars, dlgVars, capVars, nOpen, lockCalls>>

\* Lines 245-253: the OK/Cancel box shown when no camera was found.
Run_Confirm ==
    /\ pc = "run_confirm"
    /\ \/ /\ RunRaises
          /\ UNCHANGED dlgVars
       \/ \E r \in DialogReturns :
            /\ answered' = TRUE
            /\ result' = r
            /\ IF r # IDOK
                 THEN /\ cancelled' = TRUE
                      /\ RunReturns
                 ELSE /\ pc' = "run_sleep"
                      /\ UNCHANGED <<cancelled, mainVars>>
    /\ UNCHANGED <<detVars, capVars, nOpen, lockCalls>>

(***************************************************************************)
(* capture_image (lines 153-210)                                           *)
(***************************************************************************)

\* Variant of CapFinally in which the finally clause is missing: cap is left
\* as it was.
CapFinally_Missing(c) ==
    /\ cap' = c
    /\ UNCHANGED <<capReleases, nOpen>>

\* The finally clause (lines 208-210), entered with cap in state c:
\* "if cap is not None: cap.release()".  Releasing a handle that never
\* opened closes nothing.
CapFinally(c) ==
    /\ cap' = IF c = "None" THEN "None" ELSE "closed"
    /\ capReleases' = IF c = "None" THEN capReleases ELSE capReleases + 1
    /\ nOpen' = IF c = "open" THEN nOpen - 1 ELSE nOpen

\* capture_image returns val ("path" or "None") through the finally clause;
\* run() stores it in image_path (line 257).
CapReturn(val, c) ==
    /\ CapFinally(c)
    /\ image_path' = val
    /\ capState' = "returned"
    /\ pc' = "run_after_capture"
    /\ UNCHANGED mainVars

\* The handler of lines 205-207: log and return None.
CapExcept(c) == CapReturn("None", c)

\* KeyboardInterrupt is no Exception: only the finally clause runs, and the
\* interrupt reaches run()'s handler of line 281.
CapInterrupted(c) ==
    /\ CapFinally(c)
    /\ capState' = "raised"
    /\ RunInterrupted
    /\ UNCHANGED image_path

\* Variant of ReadFrame in which a failed read leaves the earlier frame in
\* place (frame assigned only under "if ret").
ReadFrame_KeepLast(ret, j, old) == IF ret THEN j ELSE old

\* Line 181: "ret, frame = cap.read()" rebinds frame on every read.  cv2
\* returns (False, None) for a failed read, so a failed read j leaves frame
\* None; a successful one leaves the frame of read j.
ReadFrame(ret, j, old) == IF ret THEN j ELSE 0

\* Variant of WriteResult in which the result of cv2.imwrite is not tested.
WriteResult_Unchecked(success) == "path"

\* Lines 198-203: the path on success of cv2.imwrite, None otherwise.
WriteResult(success) == IF success THEN "path" ELSE "None"

\* Lines 162-169: cap = None; cap = cv2.VideoCapture(camera_id);
\* if not cap.isOpened(): return None.
Cap_Open ==
    /\ pc = "cap_open"
    /\ captureCalls' = captureCalls + 1
    /\ \E o \in {"opened", "notopened", "raise"} :
         CASE o = "opened" ->
                /\ cap' = "open"
                /\ capOpened' = TRUE
                /\ nOpen' = nOpen + 1
                /\ capState' = "running"
                /\ pc' = "cap_set"
                /\ UNCHANGED <<capReleases, image_path, mainVars>>
           [] o = "notopened" ->
                /\ CapReturn("None", "closed")
                /\ UNCHANGED capOpened
           [] OTHER ->
                /\ CapExcept("None")
                /\ UNCHANGED capOpened
    /\ UNCHANGED <<reads, frame, noFrame, writeArg, writeOk>>
    /\ UNCHANGED <<detVars, dlgVars, lockCalls>>

\* Lines 172-173: cap.set(...) twice; the return values are ignored.
Cap_Set ==
    /\ pc = "cap_set"
    /\ \E raised \in BOOLEAN :
         IF raised
           THEN CapExcept(cap)
           ELSE /\ pc' = "cap_sleep"
                /\ UNCHANGED <<cap, capReleases, nOpen, image_path, capState, mainVars>>
    /\ UNCHANGED <<capOpened, reads, frame, noFrame, writeArg, writeOk, captureCalls>>
    /\ UNCHANGED <<detVars, dlgVars, lockCalls>>

\* Line 177: time.sleep(0.5).
Cap_Sleep ==
    /\ pc = "cap_sleep"
    /\ \E interrupted \in BOOLEAN :
         IF interrupted
           THEN CapInterrupted(cap)
           ELSE /\ pc' = "cap_read"
                /\ UNCHANGED <<cap, capReleases, nOpen, image_path, capState, mainVars>>
    /\ UNCHANGED <<capOpened, reads, frame, noFrame, writeArg, writeOk, captureCalls>>
    /\ UNCHANGED <<detVars, dlgVars, lockCalls>>

\* Lines 180-184: one iteration of "for i in range(3)".
Cap_Read ==
    /\ pc = "cap_read"
    /\ Len(reads) < NumReads
    /\ \/ \E ret \in BOOLEAN :
            /\ reads' = Append(reads, ret)
            /\ frame' = ReadFrame(ret, Len(reads) + 1, frame)
            /\ pc' = IF Len(reads) + 1 = NumReads THEN "cap_check" ELSE "cap_read"
            /\ UNCHANGED <<cap, capReleases, nOpen, image_path, capState, mainVars>>
       \/ /\ CapExcept(cap)
          /\ UNCHANGED <<reads, frame>>
    /\ UNCHANGED <<capOpened, noFrame, writeArg, writeOk, captureCalls>>
    /\ UNCHANGED <<detVars, dlgVars, lockCalls>>

\* Lines 186-188: if frame is None: return None.
Cap_Check ==
    /\ pc = "cap_check"
    /\ IF frame = 0
         THEN /\ noFrame' = TRUE
              /\ CapReturn("None", cap)
         ELSE /\ pc' = "cap_write"
              /\ UNCHANGED <<noFrame, cap, capReleases, nOpen, image_path, capState, mainVars>>
    /\ UNCHANGED <<capOpened, reads, frame, writeArg, writeOk, captureCalls>>
    /\ UNCHANGED <<detVars, dlgVars, lockCalls>>

\* Lines 191-203: success = cv2.imwrite(filepath, frame); return the path
\* or None.
Cap_Write ==
    /\ pc = "cap_write"
    /\ writeArg' = frame
    /\ \/ \E success \in BOOLEAN :
            /\ writeOk' = success
            /\ CapReturn(WriteResult(success), cap)
       \/ /\ CapExcept(cap)
          /\ UNCHANGED writeOk
    /\ UNCHANGED <<capOpened, reads, frame, noFrame, captureCalls>>
    /\ UNCHANGED <<detVars, dlgVars, lockCalls>>

(***************************************************************************)
(* run(), after the capture (lines 259-291), and lock_workstation          *)
(***************************************************************************)

\* Lines 259-266: nothing is shown on success; on failure the warning box.
Run_AfterCapture ==
    /\ pc = "run_after_capture"
    /\ IF image_path = "path"
         THEN /\ pc' = "run_sleep"
              /\ UNCHANGED mainVars
         ELSE \E raised \in BOOLEAN :
                IF raised
                  THEN RunRaises
                  ELSE /\ pc' = "run_sleep"
                       /\ UNCHANGED mainVars
    /\ UNCHANGED <<detVars, dlgVars, capVars, nOpen, lockCalls>>

\* Lines 269-270: time.sleep(1).
Run_Sleep ==
    /\ pc = "run_sleep"
    /\ \E interrupted \in BOOLEAN :
         IF interrupted
           THEN RunInterrupted
           ELSE /\ pc' = "run_lock"
                /\ UNCHANGED mainVars
    /\ UNCHANGED <<detVars, dlgVars, capVars, nOpen, lockCalls>>

\* Line 272 with lock_workstation (lines 212-226): LockWorkStation returns
\* nonzero, returns zero, or raises (caught inside, giving False).
Run_Lock ==
    /\ pc = "run_lock"
    /\ lockCalls' = lockCalls + 1
    /\ \E o \in {"locked", "refused", "raise"} :
         IF o = "locked"
           THEN RunReturns
           ELSE /\ pc' = "run_lockfail"
                /\ UNCHANGED mainVars
    /\ UNCHANGED <<detVars, dlgVars, capVars, nOpen>>

\* Lines 274-279: the error box after a failed lock.
Run_LockFailed ==
    /\ pc = "run_lockfail"
    /\ \E raised \in BOOLEAN :
         IF raised THEN RunRaises ELSE RunReturns
    /\ UNCHANGED <<detVars, dlgVars, capVars, nOpen, lockCalls>>

\* Lines 283-291 and 299-310: the top-level handler logs and shows an error
\* box.  If that box raises too, the exception leaves run() and main()'s
\* handler ends the process with sys.exit(1).
Run_Except ==
    /\ pc = "run_except"
    /\ \E raised \in BOOLEAN :
         IF raised
           THEN /\ pc' = "exited"
                /\ exitCode' = 1
                /\ UNCHANGED started
           ELSE RunReturns
    /\ UNCHANGED <<detVars, dlgVars, capVars, nOpen, lockCalls>>

Next ==
    \/ Main_Create
    \/ Run_Notice
    \/ Det_Open
    \/ Det_Read
    \/ Run_Check
    \/ Run_Confirm
    \/ Cap_Open
    \/ Cap_Set
    \/ Cap_Sleep
    \/ Cap_Read
    \/ Cap_Check
    \/ Cap_Write
    \/ Run_AfterCapture
    \/ Run_Sleep
    \/ Run_Lock
    \/ Run_LockFailed
    \/ Run_Except

Spec == Init /\ [][Next]_vars

(***************************************************************************)
(* Properties                                                              *)
(***************************************************************************)

\* detect_camera was called and has returned to run().
DetReturned == probed # {} /\ pc \notin {"det_open", "det_read"}

\* The smallest index whose device opens and yields a frame, NoCamera if
\* there is none.
FirstGood ==
    IF \E k \in Devices : dev[k] = "ok"
      THEN CHOOSE k \in Devices :
             /\ dev[k] = "ok"
             /\ \A m \in Devices : dev[m] = "ok" => k <= m
      ELSE NoCamera

\* Some read of the capture loop returned ret = True.
SomeReadOk == \E j \in 1 .. Len(reads) : reads[j]

\* The last read that returned ret = True (0 if none did).
LastOk ==
    IF SomeReadOk
      THEN CHOOSE j \in 1 .. Len(reads) :
             /\ reads[j]
             /\ \A m \in 1 .. Len(reads) : reads[m] => m <= j
      ELSE 0

\* capture_image has ended, by a return or by a propagating interrupt.
CapEnded == capState \in {"returned", "raised"}

\* C1: every run that entered its main sequence and was not cancelled at the
\* confirmation dialog has called lock_workstation by the time it is done,
\* on every path (raised dialog, top-level exception, interrupt included).
C1_LockUnlessCancelled ==
    (pc = "exited" /\ started /\ ~cancelled) => lockCalls >= 1

\* C2: when detect_camera returned -1, capture_image is never called, and
\* lock_workstation is called iff the confirmation dialog returned OK (1);
\* on any other answer the run is done with neither called.
C2_NoCameraBranch ==
    (DetReturned /\ camera_id = NoCamera) =>
        /\ captureCalls = 0
        /\ (answered /\ result # IDOK) => (pc = "exited" /\ lockCalls = 0)
        /\ pc = "exited" => (lockCalls >= 1 <=> (answered /\ result = IDOK))

\* C3: when detect_camera returned an index and capture_image then returned
\* None, lock_workstation is still called before the run is done.
C3_LockAfterCaptureFailure ==
    (pc = "exited" /\ camera_id # NoCamera /\ capState = "returned"
        /\ image_path = "None") => lockCalls >= 1

\* C4: for every assignment of outcomes to the indices 0..4, detect_camera
\* returns the smallest index k that opens and reads, probing exactly 0..k
\* (failures below k do not stop it), and returns -1 if no index succeeds.
C4_FirstWorkingIndex ==
    DetReturned =>
        /\ camera_id = FirstGood
        /\ probed = IF FirstGood = NoCamera THEN Devices ELSE 0 .. FirstGood

\* C5: on every exit path of detect_camera every handle it opened has been
\* released: none is open when it returns.
C5_LocatorLeavesNoHandle ==
    DetReturned => (detReleases = detOpens /\ dcap # "open")

\* C6: in every call of capture_image that acquired a handle, the handle is
\* released exactly once, and not before the call ends, whichever step ended
\* the call.
C6_ReleasedExactlyOnce ==
    /\ capReleases <= 1
    /\ capState = "running" => (capReleases = 0 /\ cap = "open")
    /\ (CapEnded /\ cap # "None") => (capReleases = 1 /\ cap = "closed")
    /\ (CapEnded /\ cap = "None") => (capReleases = 0 /\ ~capOpened)

\* A read raised after an earlier read had completed, and the call has
\* returned with its handle released once.
C6_Witness ==
    /\ capState = "returned"
    /\ capOpened
    /\ Len(reads) \in 1 .. (NumReads - 1)
    /\ capReleases = 1

\* C8: capture_image returns a path only if in that call the device opened,
\* a frame was obtained and the write reported success; if the device did
\* not open, all 3 reads failed or the write failed, it returns None.
C8_PathOnlyAfterWrite ==
    /\ image_path = "path" =>
          (capOpened /\ SomeReadOk /\ writeArg # 0 /\ writeOk)
    /\ (capState = "returned" /\
          \/ ~capOpened
          \/ (Len(reads) = NumReads /\ ~SomeReadOk)
          \/ (writeArg # 0 /\ ~writeOk)) => image_path = "None"

\* A path was returned although the first read had failed.
C8_Witness ==
    /\ capState = "returned"
    /\ image_path = "path"
    /\ ~reads[1]

\* C9 as stated: 3 reads are made, lack of a frame is reported only if no
\* read succeeded, and if some read succeeded the frame written is that of
\* the last successful read.
C9_KeepsLastSuccessful ==
    (capState = "returned" /\ Len(reads) = NumReads) =>
        /\ noFrame => ~SomeReadOk
        /\ (SomeReadOk /\ writeArg # 0) => writeArg = LastOk
        /\ SomeReadOk => ~noFrame

\* C9 amended: 3 reads are made whatever the individual results, and only
\* the third read counts: lack of a frame is reported exactly when the third
\* read failed, and the frame handed to the write is always the third one.
C9_UsesThirdRead ==
    /\ (pc \in {"cap_check", "cap_write"} \/ noFrame \/ writeArg # 0) =>
          Len(reads) = NumReads
    /\ noFrame => (capState = "returned" /\ ~reads[NumReads])
    /\ (capState = "returned" /\ Len(reads) = NumReads /\ ~reads[NumReads]) =>
          (noFrame /\ writeArg = 0)
    /\ writeArg # 0 => (writeArg = NumReads /\ reads[NumReads])

\* Two reads succeeded, the third failed, and the call reported the lack of
\* a frame.
C9_Witness ==
    /\ noFrame
    /\ reads[1]
    /\ reads[2]

\* C10: at most one camera handle is open in every reachable state; none is
\* open when the probe opens the next index or when capture_image opens its
\* own.
C10_AtMostOneHandle ==
    /\ nOpen \in {0, 1}
    /\ pc \in {"det_open", "cap_open"} => nOpen = 0

\* capture_image holds its handle after the probe had opened and released
\* two handles of its own.
C10_Witness ==
    /\ pc = "cap_read"
    /\ nOpen = 1
    /\ detOpens >= 2
    /\ detReleases = detOpens

\* C7: once run() was entered the process ends with exit status 0 on every
\* path; a non-zero status occurs only when construction failed.
C7_ExitZeroAfterStart ==
    (pc = "exited" /\ started) => exitCode = 0

====
